---- MODULE Spec2Model ----
(***************************************************************************)
(* Model of the Go WebSocket handler of Open-LLM-VTuber                    *)
(* (go-backend/internal/handlers/websocket_handler.go).                    *)
(*                                                                         *)
(* One goroutine per connection runs HandleWebSocket: it registers the     *)
(* connection with the hub, then reads frames one at a time and handles    *)
(* each of them to completion before it reads the next one.  The hub       *)
(* goroutine (handleClients) owns the map h.clients and serves the three   *)
(* unbuffered channels register, unregister and broadcast.                 *)
(***************************************************************************)
EXTENDS Integers, Sequences, FiniteSets, TLC

\* The connections that are established during a run of the server.
Conns == {"c1", "c2"}

\* The connections the hub can be handed on its channels.
HubConns == Conns \cup {"c3"}

\* Bound on the number of inbound frames read over all connections.
MaxFrames == 2

\* Bound on the number of messages that arrive on the broadcast channel.
MaxBroadcasts == 1

\* Frame types a client may send (the "type" field of the JSON envelope).
\* "foo" stands for a type no document names.
FrameTypes ==
  {"text-input", "mic-audio-data", "fetch-configs", "request-init-config",
   "interrupt-signal", "add-client-to-group", "remove-client-from-group",
   "foo"}

\* The fifteen inbound types of the external interface, and "foo".
InboundTypes ==
  {"mic-audio-data", "mic-audio-end", "text-input", "ai-speak-signal",
   "interrupt-signal", "fetch-history-list", "fetch-and-set-history",
   "create-new-history", "delete-history", "heartbeat",
   "add-client-to-group", "remove-client-from-group", "request-group-info",
   "request-init-config", "fetch-configs", "foo"}

\* A frame that ReadJSON cannot decode into Message.
Malformed == "<malformed>"

\* The value of "no reply" of a handler.
NoReply == "<none>"

\* The type of a message that arrives on the broadcast channel.
BroadcastType == "broadcast-msg"

VARIABLES
  pc,        \* position of each connection's HandleWebSocket goroutine
  clients,   \* h.clients: the set of keys of the map
  closed,    \* connections on which the server called conn.Close()
  inflight,  \* per connection: replies handed to sendToClient, not yet written
  out,       \* per connection: types of the frames written to the client
  handled,   \* per connection: history of the inbound frames read
  hubOp,     \* the last case the hub executed, with its inputs
  bcasts,    \* number of broadcast messages the hub has processed
  apc,       \* position of the HTTP handler ProcessAudio
  areq,      \* the bound AudioRequest
  acalls,    \* the stage calls processAudioData has made, with their results
  aresp,     \* the HTTP response of ProcessAudio
  rframe,    \* the Message handleMessage was last called with
  rcalls,    \* history: each routed Message with the branches executed
  mutex,     \* h.mutex: the holders of the read lock, and the write lock
  hubpc,     \* position of the hub goroutine in handleClients
  hubArg,    \* the connection the hub received from a channel
  hubTodo,   \* the members the range loop of a broadcast has yet to visit
  recentAudio, \* audio store: state.recentAudio
  adds,        \* audio store: number of addAudio calls so far
  now,         \* the clock read by Date.now()
  constructed,       \* WebSocket client: the constructor has run
  ws,                \* this.ws: null, or the readyState of the socket
  reconnectAttempts, \* this.reconnectAttempts
  timers,            \* pending setTimeout callbacks of onclose
  sinceOpen,         \* history: connect() calls by timers since the last open
  wire,              \* history: frames handed to the socket by send
  sendResult,        \* history: how the last send call ended
  closedByApp,       \* history: close() was called on the current socket
  eventHandlers,     \* this.eventHandlers[event], for one event
  emitting,          \* an emit of the event is running its forEach
  emitIdx,           \* the index forEach visits next
  emitLen,           \* the length forEach read when it started
  emitStart,         \* history: the handlers registered when emit started
  invoked,           \* history: the handlers the running emit has called
  messages,          \* chat store: state.messages
  isProcessing,      \* chat store: state.isProcessing
  chatPending,       \* sendMessage calls awaiting their timer, oldest first
  chatCalls,         \* history: number of sendMessage calls so far
  config,            \* config store: state.config
  cfgOp,             \* history: the last config store action and argument
  mounted,           \* Live2D renderer: the component is mounted
  app,               \* Live2D renderer: the module variable app (0 is null)
  live2dModel,       \* Live2D renderer: the call whose model is kept
  alive,             \* the PIXI applications created and not destroyed
  created,           \* history: number of PIXI applications created
  lpc                \* position of each loadModel call

wsVars == <<pc, clients, closed, inflight, out, handled, hubOp, bcasts>>
audioVars == <<apc, areq, acalls, aresp>>
routerVars == <<rframe, rcalls>>
lockVars == <<mutex, hubpc, hubArg, hubTodo>>
backVars == <<wsVars, audioVars, routerVars, lockVars>>

audioStoreVars == <<recentAudio, adds, now>>
wsClientVars ==
  <<constructed, ws, reconnectAttempts, timers, sinceOpen, wire, sendResult,
    closedByApp>>
emitVars == <<eventHandlers, emitting, emitIdx, emitLen, emitStart, invoked>>
chatVars == <<messages, isProcessing, chatPending, chatCalls>>
configVars == <<config, cfgOp>>
live2dVars == <<mounted, app, live2dModel, alive, created, lpc>>
frontVars ==
  <<audioStoreVars, wsClientVars, emitVars, chatVars, configVars, live2dVars>>

\* What the actions of one part of the front end leave alone.
notAudioStore ==
  <<backVars, wsClientVars, emitVars, chatVars, configVars, live2dVars>>
notWsClient ==
  <<backVars, audioStoreVars, emitVars, chatVars, configVars, live2dVars>>
notEmit ==
  <<backVars, audioStoreVars, wsClientVars, chatVars, configVars, live2dVars>>
notChat ==
  <<backVars, audioStoreVars, wsClientVars, emitVars, configVars, live2dVars>>
notConfig ==
  <<backVars, audioStoreVars, wsClientVars, emitVars, chatVars, live2dVars>>
notLive2D ==
  <<backVars, audioStoreVars, wsClientVars, emitVars, chatVars, configVars>>

vars == <<backVars, frontVars>>

----------------------------------------------------------------------------
(* Helpers over the history variables *)

RECURSIVE SumLen(_, _)
SumLen(f, S) ==
  IF S = {} THEN 0
  ELSE LET c == CHOOSE x \in S : TRUE IN Len(f[c]) + SumLen(f, S \ {c})

FramesRead == SumLen(handled, Conns)

Last(s) == s[Len(s)]

\* Number of interrupt-signal frames a connection has handled so far: the
\* sequence number a session would have if every interrupt advanced it.
CurrentSequence(c) ==
  Cardinality({i \in 1..Len(handled[c]) : handled[c][i] = "interrupt-signal"})

----------------------------------------------------------------------------
(* handleMessage: the switch on msg.Type.  The result is the reply that is *)
(* handed to sendToClient (NoReply when the branch sends nothing) and the  *)
(* contents of h.clients after the branch.                                 *)

handleMessageDefaultReplies(type, conn, cl) ==
  [reply |-> CASE type = "text-input" -> "llm-response"
               [] type = "mic-audio-data" -> NoReply
               [] type = "fetch-configs" -> "configs"
               [] type = "request-init-config" -> "set-model-and-conf"
               [] OTHER -> "error",
   clients |-> cl]

handleMessageGroupOnRegistry(type, conn, cl) ==
  [reply |-> CASE type = "text-input" -> "llm-response"
               [] type = "mic-audio-data" -> NoReply
               [] type = "fetch-configs" -> "configs"
               [] type = "request-init-config" -> "set-model-and-conf"
               [] OTHER -> NoReply,
   clients |-> CASE type = "add-client-to-group" -> cl \cup {conn}
                 [] type = "remove-client-from-group" -> cl \ {conn}
                 [] OTHER -> cl]

handleMessageLateAudioError(type, conn, cl) ==
  [reply |-> CASE type = "text-input" -> "llm-response"
               [] type = "mic-audio-data" -> "error"
               [] type = "fetch-configs" -> "configs"
               [] type = "request-init-config" -> "set-model-and-conf"
               [] OTHER -> NoReply,
   clients |-> cl]

handleMessage(type, conn, cl) ==
  [reply |-> CASE type = "text-input" -> "llm-response"
               [] type = "mic-audio-data" -> NoReply
               [] type = "fetch-configs" -> "configs"
               [] type = "request-init-config" -> "set-model-and-conf"
               [] OTHER -> NoReply,
   clients |-> cl]

\* The types handleMessage has a case for.
Recognized ==
  {"text-input", "mic-audio-data", "fetch-configs", "request-init-config"}

----------------------------------------------------------------------------
(* The hub: the three cases of the select in handleClients, as functions   *)
(* of the registry and of the set of closed connections.                   *)

registerCaseToggle(cl, conn) ==
  IF conn \in cl THEN cl \ {conn} ELSE cl \cup {conn}

registerCase(cl, conn) == cl \cup {conn}

unregisterCaseCloseOnly(reg, conn) ==
  IF conn \in reg.clients
  THEN [clients |-> reg.clients, closed |-> reg.closed \cup {conn}]
  ELSE reg

unregisterCase(reg, conn) ==
  IF conn \in reg.clients
  THEN [clients |-> reg.clients \ {conn}, closed |-> reg.closed \cup {conn}]
  ELSE reg

\* The range loop of the broadcast case.  order is the order in which the
\* map iteration visits the members, fail the members whose WriteJSON
\* returns an error.  acc collects the registry, the closed connections and
\* the members the message was written to.
RECURSIVE broadcastLoopAbort(_, _, _, _)
broadcastLoopAbort(order, i, fail, acc) ==
  IF i > Len(order) THEN acc
  ELSE IF order[i] \in fail
       THEN [acc EXCEPT !.clients = @ \ {order[i]},
                        !.closed = @ \cup {order[i]}]
       ELSE broadcastLoopAbort(order, i + 1, fail,
                          [acc EXCEPT !.delivered = @ \cup {order[i]}])

RECURSIVE broadcastLoop(_, _, _, _)
broadcastLoop(order, i, fail, acc) ==
  IF i > Len(order) THEN acc
  ELSE IF order[i] \in fail
       THEN broadcastLoop(order, i + 1, fail,
                          [acc EXCEPT !.clients = @ \ {order[i]},
                                      !.closed = @ \cup {order[i]}])
       ELSE broadcastLoop(order, i + 1, fail,
                          [acc EXCEPT !.delivered = @ \cup {order[i]}])

\* The orders in which a range over the set S can visit its elements.
Orders(S) ==
  {o \in [1..Cardinality(S) -> S] : \A x \in S : \E i \in DOMAIN o : o[i] = x}

----------------------------------------------------------------------------
(* Initial state: NewWebSocketHandler has run, nothing is connected.       *)

NoOp == [op |-> "none", conn |-> "none", was |-> FALSE, fail |-> {}]

\* No request bound, no response written, no frame handed to the router.
NoRequest == [audio |-> "none", format |-> "none"]
NoResponse == [status |-> 0, text |-> "", audioUrl |-> "", error |-> ""]
NoFrame == [type |-> "none", data |-> "none", conn |-> "none"]

\* The loadModel calls of one component: the first from onMounted, the
\* others from the watch on props.modelInfo.
MaxLoads == 3

LoadCalls == 1..MaxLoads

\* The state the config store is created with.
defaultConfig ==
  [llm |-> [provider |-> "ollama", model |-> "qwen2.5:latest",
            baseUrl |-> "http://localhost:11434/v1", apiKey |-> "ollama"],
   asr |-> [provider |-> "sherpa_onnx", model |-> "sense_voice"],
   tts |-> [provider |-> "edge_tts", voice |-> "zh-CN-XiaoxiaoNeural"]]

Init ==
  /\ pc = [c \in HubConns |-> "idle"]
  /\ clients = {}
  /\ closed = {}
  /\ inflight = [c \in HubConns |-> <<>>]
  /\ out = [c \in HubConns |-> <<>>]
  /\ handled = [c \in HubConns |-> <<>>]
  /\ hubOp = NoOp
  /\ bcasts = 0
  /\ apc = "idle"
  /\ areq = NoRequest
  /\ acalls = <<>>
  /\ aresp = NoResponse
  /\ rframe = NoFrame
  /\ rcalls = <<>>
  /\ mutex = [readers |-> {}, writer |-> FALSE]
  /\ hubpc = "select"
  /\ hubArg = "none"
  /\ hubTodo = <<>>
  /\ recentAudio = <<>>
  /\ adds = 0
  /\ now = 0
  /\ constructed = FALSE
  /\ ws = "null"
  /\ reconnectAttempts = 0
  /\ timers = 0
  /\ sinceOpen = 0
  /\ wire = 0
  /\ sendResult = "none"
  /\ closedByApp = FALSE
  /\ eventHandlers = <<>>
  /\ emitting = FALSE
  /\ emitIdx = 0
  /\ emitLen = 0
  /\ emitStart = <<>>
  /\ invoked = <<>>
  /\ messages = <<>>
  /\ isProcessing = FALSE
  /\ chatPending = <<>>
  /\ chatCalls = 0
  /\ config = defaultConfig
  /\ cfgOp = [op |-> "none", section |-> "none", arg |-> <<>>]
  /\ mounted = TRUE
  /\ app = 0
  /\ live2dModel = 0
  /\ alive = {}
  /\ created = 0
  /\ lpc = [k \in LoadCalls |-> "idle"]

----------------------------------------------------------------------------
(* HandleWebSocket, one connection's goroutine *)

\* upgrader.Upgrade succeeds: the connection exists, the goroutine blocks on
\* the send to h.register.
Upgrade(c) ==
  /\ pc[c] = "idle"
  /\ pc' = [pc EXCEPT ![c] = "registering"]
  /\ UNCHANGED <<clients, closed, inflight, out, handled, hubOp, bcasts>>
  /\ UNCHANGED <<audioVars, routerVars, lockVars, frontVars>>

\* upgrader.Upgrade fails: the handler returns without a connection.
UpgradeFail(c) ==
  /\ pc[c] = "idle"
  /\ pc' = [pc EXCEPT ![c] = "done"]
  /\ UNCHANGED <<clients, closed, inflight, out, handled, hubOp, bcasts>>
  /\ UNCHANGED <<audioVars, routerVars, lockVars, frontVars>>

\* h.register <- conn meets the hub's register case.
Register(c) ==
  /\ pc[c] = "registering"
  /\ clients' = registerCase(clients, c)
  /\ hubOp' = [op |-> "register", conn |-> c, was |-> c \in clients,
               fail |-> {}]
  /\ pc' = [pc EXCEPT ![c] = "reading"]
  /\ UNCHANGED <<closed, inflight, out, handled, bcasts>>
  /\ UNCHANGED <<audioVars, routerVars, lockVars, frontVars>>

\* The loop calls ReadJSON only after handleMessage has returned.
ReadyToReadAsync(c) == pc[c] \in {"reading", "writing"}

ReadyToRead(c) == pc[c] = "reading"

\* handleMessage returns to the loop only after sendToClient has returned:
\* with a reply q to write the goroutine is in the write, else back in the
\* read.
afterDispatchNoWait(q) == "reading"

afterDispatch(q) == IF q = <<>> THEN "reading" ELSE "writing"

\* ReadJSON decodes a frame of the given type and handleMessage dispatches
\* it; a reply, if any, is handed to sendToClient.
ReadFrame(c, type) ==
  /\ ReadyToRead(c)
  /\ c \notin closed
  /\ FramesRead < MaxFrames
  /\ LET r == handleMessage(type, c, clients)
         q == IF r.reply = NoReply THEN inflight[c]
              ELSE Append(inflight[c],
                          [type |-> r.reply, seq |-> CurrentSequence(c)])
     IN /\ handled' = [handled EXCEPT ![c] = Append(@, type)]
        /\ clients' = r.clients
        /\ inflight' = [inflight EXCEPT ![c] = q]
        /\ pc' = [pc EXCEPT ![c] = afterDispatch(q)]
  /\ UNCHANGED <<closed, out, hubOp, bcasts>>
  /\ UNCHANGED <<audioVars, routerVars, lockVars, frontVars>>

\* ReadJSON returns an error because the frame is not a JSON envelope: the
\* loop breaks and the deferred unregister runs.
ReadMalformed(c) ==
  /\ ReadyToRead(c)
  /\ c \notin closed
  /\ FramesRead < MaxFrames
  /\ handled' = [handled EXCEPT ![c] = Append(@, Malformed)]
  /\ pc' = [pc EXCEPT ![c] = "unregistering"]
  /\ UNCHANGED <<clients, closed, inflight, out, hubOp, bcasts>>
  /\ UNCHANGED <<audioVars, routerVars, lockVars, frontVars>>

\* ReadJSON returns an error because the transport failed, the client went
\* away, or the connection was closed by the server.
ReadFail(c) ==
  /\ pc[c] = "reading"
  /\ pc' = [pc EXCEPT ![c] = "unregistering"]
  /\ UNCHANGED <<clients, closed, inflight, out, handled, hubOp, bcasts>>
  /\ UNCHANGED <<audioVars, routerVars, lockVars, frontVars>>

SendToClientEveryone(c, ok) ==
  /\ pc[c] = "writing"
  /\ inflight[c] # <<>>
  /\ c \in closed => ~ok
  /\ inflight' = [inflight EXCEPT ![c] = Tail(@)]
  /\ IF ok
     THEN /\ out' = [d \in HubConns |->
                       IF d \in clients \cup {c}
                       THEN Append(out[d], Head(inflight[c]).type)
                       ELSE out[d]]
          /\ closed' = closed
     ELSE /\ out' = out
          /\ closed' = closed \cup {c}
  /\ pc' = [pc EXCEPT ![c] = afterDispatch(Tail(inflight[c]))]
  /\ UNCHANGED <<clients, handled, hubOp, bcasts>>
  /\ UNCHANGED <<audioVars, routerVars, lockVars, frontVars>>

\* sendToClient: WriteJSON of the reply; on an error the connection is
\* closed.  A write on a closed connection always fails.
SendToClient(c, ok) ==
  /\ pc[c] = "writing"
  /\ inflight[c] # <<>>
  /\ c \in closed => ~ok
  /\ inflight' = [inflight EXCEPT ![c] = Tail(@)]
  /\ IF ok
     THEN /\ out' = [out EXCEPT ![c] = Append(@, Head(inflight[c]).type)]
          /\ closed' = closed
     ELSE /\ out' = out
          /\ closed' = closed \cup {c}
  /\ pc' = [pc EXCEPT ![c] = afterDispatch(Tail(inflight[c]))]
  /\ UNCHANGED <<clients, handled, hubOp, bcasts>>
  /\ UNCHANGED <<audioVars, routerVars, lockVars, frontVars>>

\* The deferred h.unregister <- conn meets the hub's unregister case; then
\* the deferred conn.Close() runs.
Unregister(c) ==
  /\ pc[c] = "unregistering"
  /\ LET r == unregisterCase([clients |-> clients, closed |-> closed], c)
     IN /\ clients' = r.clients
        /\ closed' = r.closed \cup {c}
  /\ hubOp' = [op |-> "unregister", conn |-> c, was |-> c \in clients,
               fail |-> {}]
  /\ pc' = [pc EXCEPT ![c] = "done"]
  /\ UNCHANGED <<inflight, out, handled, bcasts>>
  /\ UNCHANGED <<audioVars, routerVars, lockVars, frontVars>>

----------------------------------------------------------------------------
(* The hub's broadcast case: a message arrives on h.broadcast.             *)

Broadcast(order, fail) ==
  /\ bcasts < MaxBroadcasts
  /\ order \in Orders(clients)
  /\ fail \subseteq clients
  /\ (clients \cap closed) \subseteq fail
  /\ LET r == broadcastLoop(order, 1, fail,
                [clients |-> clients, closed |-> closed, delivered |-> {}])
     IN /\ clients' = r.clients
        /\ closed' = r.closed
        /\ out' = [c \in HubConns |->
                     IF c \in r.delivered THEN Append(out[c], BroadcastType)
                     ELSE out[c]]
  /\ hubOp' = [op |-> "broadcast", conn |-> "none", was |-> FALSE,
               fail |-> fail]
  /\ bcasts' = bcasts + 1
  /\ UNCHANGED <<pc, inflight, handled>>
  /\ UNCHANGED <<audioVars, routerVars, lockVars, frontVars>>

----------------------------------------------------------------------------
Next ==
  \/ \E c \in Conns : Upgrade(c)
  \/ \E c \in Conns : UpgradeFail(c)
  \/ \E c \in Conns : Register(c)
  \/ \E c \in Conns : \E type \in FrameTypes : ReadFrame(c, type)
  \/ \E c \in Conns : ReadMalformed(c)
  \/ \E c \in Conns : ReadFail(c)
  \/ \E c \in Conns : \E ok \in BOOLEAN : SendToClient(c, ok)
  \/ \E c \in Conns : Unregister(c)
  \/ \E fail \in SUBSET clients : \E order \in Orders(clients) :
       Broadcast(order, fail)

Spec == Init /\ [][Next]_vars

----------------------------------------------------------------------------
(* The hub goroutine on its own: handleClients fed with any connection on  *)
(* its register and unregister channels and any message on broadcast.      *)

HubRegister(c) ==
  /\ clients' = registerCase(clients, c)
  /\ hubOp' = [op |-> "register", conn |-> c, was |-> c \in clients,
               fail |-> {}]
  /\ UNCHANGED <<pc, closed, inflight, out, handled, bcasts>>
  /\ UNCHANGED <<audioVars, routerVars, lockVars, frontVars>>

HubUnregister(c) ==
  /\ LET r == unregisterCase([clients |-> clients, closed |-> closed], c)
     IN /\ clients' = r.clients
        /\ closed' = r.closed
  /\ hubOp' = [op |-> "unregister", conn |-> c, was |-> c \in clients,
               fail |-> {}]
  /\ UNCHANGED <<pc, inflight, out, handled, bcasts>>
  /\ UNCHANGED <<audioVars, routerVars, lockVars, frontVars>>

HubNext ==
  \/ \E c \in HubConns : HubRegister(c)
  \/ \E c \in HubConns : HubUnregister(c)
  \/ \E fail \in SUBSET clients : \E order \in Orders(clients) :
       Broadcast(order, fail)

SpecHub == Init /\ [][HubNext]_vars

TypeOK ==
  /\ pc \in [HubConns -> {"idle", "registering", "reading", "writing",
                       "unregistering", "done"}]
  /\ clients \subseteq HubConns
  /\ closed \subseteq HubConns
  /\ bcasts \in 0..MaxBroadcasts
  /\ \A c \in Conns : Len(handled[c]) <= MaxFrames

----------------------------------------------------------------------------
(* The HTTP audio pipeline: AudioHandler.ProcessAudio and                  *)
(* processAudioData.  The three stage functions are placeholders in the    *)
(* source (each returns one fixed string and a nil error); they are        *)
(* modelled by their signature, (string, error): a stage returns one of a  *)
(* few strings or one of a few errors.                                     *)

Stages == <<"ASR", "LLM", "TTS">>

AudioData == {"a1", "a2"}
Formats == {"wav", "raw", "mp3"}

\* The strings a stage can return.
StageValues(stage) ==
  CASE stage = "ASR" -> {"user-text-1", "user-text-2"}
    [] stage = "LLM" -> {"ai-reply-1", "ai-reply-2"}
    [] stage = "TTS" -> {"/audio/generated.mp3", "/audio/other.mp3"}

\* The texts of the errors a stage can return: one that says which stage
\* it comes from, one that does not.
StageErrors(stage) ==
  CASE stage = "ASR" -> {"connection refused", "ASR failed"}
    [] stage = "LLM" -> {"connection refused", "LLM failed"}
    [] stage = "TTS" -> {"connection refused", "TTS failed"}

StageResults(stage) ==
  [ok : {TRUE}, val : StageValues(stage), err : {""}]
    \cup [ok : {FALSE}, val : {""}, err : StageErrors(stage)]

\* The argument processAudioData passes to a stage.
stageInputUserText(stage, req, calls) ==
  CASE stage = "ASR" -> <<req.audio, req.format>>
    [] stage = "LLM" -> calls[1].res.val
    [] stage = "TTS" -> calls[1].res.val

stageInput(stage, req, calls) ==
  CASE stage = "ASR" -> <<req.audio, req.format>>
    [] stage = "LLM" -> calls[1].res.val
    [] stage = "TTS" -> calls[2].res.val

\* Where processAudioData goes after a stage returned res: the next stage,
\* or the return.
afterStage(stage, res) ==
  IF ~res.ok THEN "done"
  ELSE CASE stage = "ASR" -> "LLM"
         [] stage = "LLM" -> "TTS"
         [] stage = "TTS" -> "done"

\* The response ProcessAudio writes once processAudioData has returned.
audioResponse(calls) ==
  IF calls[Len(calls)].res.ok
  THEN [status |-> 200, text |-> calls[2].res.val,
        audioUrl |-> calls[3].res.val, error |-> ""]
  ELSE [status |-> 500, text |-> "", audioUrl |-> "",
        error |-> calls[Len(calls)].res.err]

\* c.ShouldBindJSON fails: 400 and return.
AudioBindFail ==
  /\ apc = "idle"
  /\ apc' = "done"
  /\ aresp' = [status |-> 400, text |-> "", audioUrl |-> "",
               error |-> "bad request"]
  /\ UNCHANGED <<areq, acalls>>
  /\ UNCHANGED <<wsVars, routerVars, lockVars, frontVars>>

\* c.ShouldBindJSON succeeds: processAudioData starts with the ASR stage.
AudioBind(audio, format) ==
  /\ apc = "idle"
  /\ areq' = [audio |-> audio, format |-> format]
  /\ apc' = "ASR"
  /\ UNCHANGED <<acalls, aresp>>
  /\ UNCHANGED <<wsVars, routerVars, lockVars, frontVars>>

\* processAudioData calls the stage it is at, and the stage returns res.
CallStage(stage, res) ==
  /\ apc = stage
  /\ LET calls == Append(acalls,
                    [stage |-> stage,
                     input |-> stageInput(stage, areq, acalls),
                     res |-> res])
         next == afterStage(stage, res)
     IN /\ acalls' = calls
        /\ apc' = next
        /\ aresp' = IF next = "done" THEN audioResponse(calls) ELSE aresp
  /\ UNCHANGED areq
  /\ UNCHANGED <<wsVars, routerVars, lockVars, frontVars>>

CallASR(res) == CallStage("ASR", res)
CallLLM(res) == CallStage("LLM", res)
CallTTS(res) == CallStage("TTS", res)

AudioNext ==
  \/ AudioBindFail
  \/ \E audio \in AudioData : \E format \in Formats : AudioBind(audio, format)
  \/ \E res \in StageResults("ASR") : CallASR(res)
  \/ \E res \in StageResults("LLM") : CallLLM(res)
  \/ \E res \in StageResults("TTS") : CallTTS(res)

SpecAudio == Init /\ [][AudioNext]_vars

----------------------------------------------------------------------------
(* The router on its own: handleMessage called with any Message.           *)

\* Bound on the number of messages routed.
MaxRouted == 2

\* Payloads a Message can carry.
FrameData == {"d1", "d2"}

\* The case clauses of the switch in handleMessage, in source order, with
\* the function each one calls.
SwitchCases ==
  << [label |-> "text-input", branch |-> "processTextInput"],
     [label |-> "mic-audio-data", branch |-> "processAudioData"],
     [label |-> "fetch-configs", branch |-> "sendConfigs"],
     [label |-> "request-init-config", branch |-> "sendInitConfig"] >>

\* The branches the switch executes for msg: the first clause whose label
\* equals msg.Type and nothing else (no fallthrough), or the default
\* clause.
dispatchFallthrough(msg) ==
  LET hits == {i \in DOMAIN SwitchCases : SwitchCases[i].label = msg.type}
  IN IF hits = {} THEN <<"default">>
     ELSE LET first == CHOOSE i \in hits : \A j \in hits : i <= j
          IN [k \in 1..(Len(SwitchCases) - first + 1) |->
                SwitchCases[first + k - 1].branch]

dispatch(msg) ==
  LET hits == {i \in DOMAIN SwitchCases : SwitchCases[i].label = msg.type}
  IN IF hits = {} THEN <<"default">>
     ELSE LET first == CHOOSE i \in hits : \A j \in hits : i <= j
          IN <<SwitchCases[first].branch>>

RouteFrame(type, data, conn) ==
  /\ Len(rcalls) < MaxRouted
  /\ LET msg == [type |-> type, data |-> data, conn |-> conn]
     IN /\ rframe' = msg
        /\ rcalls' = Append(rcalls, [frame |-> msg, branches |-> dispatch(msg)])
  /\ UNCHANGED <<wsVars, audioVars, lockVars, frontVars>>

RouterNext ==
  \E type \in InboundTypes : \E data \in FrameData : \E conn \in Conns :
    RouteFrame(type, data, conn)

SpecRouter == Init /\ [][RouterNext]_vars

----------------------------------------------------------------------------
(* The handler goroutines and the hub at the grain of h.mutex.  A handler  *)
(* hands its connection to the hub over an unbuffered channel; the hub     *)
(* then takes the write lock, changes the map and releases the lock.       *)
(* sendToClient holds the read lock for the whole of WriteJSON; the        *)
(* broadcast case holds the read lock for the whole of its range loop.     *)

\* The frames read in this specification: one that has a reply, one that
\* has none.
LockFrameTypes == {"fetch-configs", "foo"}

\* sync.RWMutex: Lock is granted when nobody holds the lock.
CanLock == mutex.readers = {} /\ ~mutex.writer

\* sync.RWMutex: RLock is granted when no writer holds the lock and no
\* Lock call is blocked (a blocked Lock excludes new readers).
CanRLock == ~mutex.writer /\ hubpc \notin {"regLock", "unregLock"}

\* The hub is in its select, ready to receive from a channel.
HubReady == hubpc = "select"

\* h.register <- conn: the hub receives the connection; the handler goes on
\* to its read loop.
LockRegisterSend(c) ==
  /\ pc[c] = "registering"
  /\ HubReady
  /\ hubpc' = "regLock"
  /\ hubArg' = c
  /\ pc' = [pc EXCEPT ![c] = "reading"]
  /\ UNCHANGED <<clients, closed, inflight, out, handled, hubOp, bcasts>>
  /\ UNCHANGED <<mutex, hubTodo>>
  /\ UNCHANGED <<audioVars, routerVars, frontVars>>

\* ReadJSON and handleMessage; a reply is handed to sendToClient, which
\* starts with RLock.
LockReadFrame(c, type) ==
  /\ ReadyToRead(c)
  /\ c \notin closed
  /\ FramesRead < MaxFrames
  /\ LET r == handleMessage(type, c, clients)
     IN /\ handled' = [handled EXCEPT ![c] = Append(@, type)]
        /\ IF r.reply = NoReply
           THEN UNCHANGED <<inflight, pc>>
           ELSE /\ inflight' = [inflight EXCEPT ![c] =
                      Append(@, [type |-> r.reply,
                                 seq |-> CurrentSequence(c)])]
                /\ pc' = [pc EXCEPT ![c] = "rlock"]
  /\ UNCHANGED <<clients, closed, out, hubOp, bcasts>>
  /\ UNCHANGED <<audioVars, routerVars, lockVars, frontVars>>

\* ReadJSON on a connection the server has closed returns an error.
ReadClosed(c) == c \in closed /\ ReadFail(c)

\* sendToClient: h.mutex.RLock().
LockSendRLock(c) ==
  /\ pc[c] = "rlock"
  /\ CanRLock
  /\ mutex' = [mutex EXCEPT !.readers = @ \cup {c}]
  /\ pc' = [pc EXCEPT ![c] = "writing"]
  /\ UNCHANGED <<clients, closed, inflight, out, handled, hubOp, bcasts>>
  /\ UNCHANGED <<hubpc, hubArg, hubTodo>>
  /\ UNCHANGED <<audioVars, routerVars, frontVars>>

\* sendToClient: WriteJSON returns, the connection is closed on an error,
\* and the deferred RUnlock runs.
LockSendWrite(c, ok) ==
  /\ pc[c] = "writing"
  /\ c \in mutex.readers
  /\ c \in closed => ~ok
  /\ inflight' = [inflight EXCEPT ![c] = Tail(@)]
  /\ IF ok
     THEN /\ out' = [out EXCEPT ![c] = Append(@, Head(inflight[c]).type)]
          /\ closed' = closed
     ELSE /\ out' = out
          /\ closed' = closed \cup {c}
  /\ mutex' = [mutex EXCEPT !.readers = @ \ {c}]
  /\ pc' = [pc EXCEPT ![c] = "reading"]
  /\ UNCHANGED <<clients, handled, hubOp, bcasts>>
  /\ UNCHANGED <<hubpc, hubArg, hubTodo>>
  /\ UNCHANGED <<audioVars, routerVars, frontVars>>

\* The deferred h.unregister <- conn: the hub receives the connection; the
\* handler runs the deferred conn.Close() and returns.
LockUnregisterSend(c) ==
  /\ pc[c] = "unregistering"
  /\ HubReady
  /\ hubpc' = "unregLock"
  /\ hubArg' = c
  /\ closed' = closed \cup {c}
  /\ pc' = [pc EXCEPT ![c] = "done"]
  /\ UNCHANGED <<clients, inflight, out, handled, hubOp, bcasts>>
  /\ UNCHANGED <<mutex, hubTodo>>
  /\ UNCHANGED <<audioVars, routerVars, frontVars>>

\* Register and unregister cases: h.mutex.Lock().
HubLock ==
  /\ hubpc \in {"regLock", "unregLock"}
  /\ CanLock
  /\ mutex' = [mutex EXCEPT !.writer = TRUE]
  /\ hubpc' = IF hubpc = "regLock" THEN "regMut" ELSE "unregMut"
  /\ UNCHANGED <<wsVars, hubArg, hubTodo>>
  /\ UNCHANGED <<audioVars, routerVars, frontVars>>

\* Register case: h.clients[conn] = true; h.mutex.Unlock().
HubRegisterMutate ==
  /\ hubpc = "regMut"
  /\ clients' = registerCase(clients, hubArg)
  /\ mutex' = [mutex EXCEPT !.writer = FALSE]
  /\ hubpc' = "select"
  /\ hubArg' = "none"
  /\ UNCHANGED <<pc, closed, inflight, out, handled, hubOp, bcasts>>
  /\ UNCHANGED hubTodo
  /\ UNCHANGED <<audioVars, routerVars, frontVars>>

\* Unregister case: the guarded delete and Close; h.mutex.Unlock().
HubUnregisterMutate ==
  /\ hubpc = "unregMut"
  /\ LET r == unregisterCase([clients |-> clients, closed |-> closed], hubArg)
     IN /\ clients' = r.clients
        /\ closed' = r.closed
  /\ mutex' = [mutex EXCEPT !.writer = FALSE]
  /\ hubpc' = "select"
  /\ hubArg' = "none"
  /\ UNCHANGED <<pc, inflight, out, handled, hubOp, bcasts>>
  /\ UNCHANGED hubTodo
  /\ UNCHANGED <<audioVars, routerVars, frontVars>>

\* Broadcast case: a message is received, h.mutex.RLock(), and the range
\* loop starts; order is the order in which it visits the members.
HubBroadcastStart(order) ==
  /\ HubReady
  /\ bcasts < MaxBroadcasts
  /\ ~mutex.writer
  /\ order \in Orders(clients)
  /\ mutex' = [mutex EXCEPT !.readers = @ \cup {"hub"}]
  /\ hubTodo' = order
  /\ hubpc' = "bcast"
  /\ bcasts' = bcasts + 1
  /\ UNCHANGED <<pc, clients, closed, inflight, out, handled, hubOp>>
  /\ UNCHANGED hubArg
  /\ UNCHANGED <<audioVars, routerVars, frontVars>>

\* One iteration of the range loop: WriteJSON to the member; on an error
\* the member is deleted from the map and closed.
HubBroadcastWrite(ok) ==
  /\ hubpc = "bcast"
  /\ hubTodo # <<>>
  /\ Head(hubTodo) \in closed => ~ok
  /\ LET conn == Head(hubTodo)
     IN IF ok
        THEN /\ out' = [out EXCEPT ![conn] = Append(@, BroadcastType)]
             /\ UNCHANGED <<clients, closed>>
        ELSE /\ clients' = clients \ {conn}
             /\ closed' = closed \cup {conn}
             /\ out' = out
  /\ hubTodo' = Tail(hubTodo)
  /\ UNCHANGED <<pc, inflight, handled, hubOp, bcasts>>
  /\ UNCHANGED <<mutex, hubpc, hubArg>>
  /\ UNCHANGED <<audioVars, routerVars, frontVars>>

\* The range loop is over: h.mutex.RUnlock().
HubBroadcastEnd ==
  /\ hubpc = "bcast"
  /\ hubTodo = <<>>
  /\ mutex' = [mutex EXCEPT !.readers = @ \ {"hub"}]
  /\ hubpc' = "select"
  /\ UNCHANGED <<wsVars, hubArg, hubTodo>>
  /\ UNCHANGED <<audioVars, routerVars, frontVars>>

LockNext ==
  \/ \E c \in Conns : Upgrade(c)
  \/ \E c \in Conns : UpgradeFail(c)
  \/ \E c \in Conns : LockRegisterSend(c)
  \/ \E c \in Conns : \E type \in LockFrameTypes : LockReadFrame(c, type)
  \/ \E c \in Conns : ReadFail(c)
  \/ \E c \in Conns : LockSendRLock(c)
  \/ \E c \in Conns : \E ok \in BOOLEAN : LockSendWrite(c, ok)
  \/ \E c \in Conns : LockUnregisterSend(c)
  \/ HubLock
  \/ HubRegisterMutate
  \/ HubUnregisterMutate
  \/ \E order \in Orders(clients) : HubBroadcastStart(order)
  \/ \E ok \in BOOLEAN : HubBroadcastWrite(ok)
  \/ HubBroadcastEnd

SpecLock == Init /\ [][LockNext]_vars

\* Scheduling: a goroutine that can take a step eventually takes it (the Go
\* scheduler), a write to the network eventually returns, a read on a
\* closed connection returns its error, and a send on a channel whose
\* receiver keeps coming back to its select is eventually received.
LockFairness ==
  /\ WF_vars(HubLock)
  /\ WF_vars(HubRegisterMutate)
  /\ WF_vars(HubUnregisterMutate)
  /\ WF_vars(\E ok \in BOOLEAN : HubBroadcastWrite(ok))
  /\ WF_vars(HubBroadcastEnd)
  /\ \A c \in Conns :
       /\ WF_vars(ReadClosed(c))
       /\ WF_vars(LockSendRLock(c))
       /\ WF_vars(\E ok \in BOOLEAN : LockSendWrite(c, ok))
       /\ SF_vars(LockRegisterSend(c))
       /\ SF_vars(LockUnregisterSend(c))

FairSpecLock == SpecLock /\ LockFairness

----------------------------------------------------------------------------
(* The audio store of the front end (useAudioStore).                       *)

\* The store keeps this many entries.
AudioCap == 10

MaxAdds == 11
MaxClock == 1

AudioUrls == {"u1", "u2"}

\* The entry addAudio builds: id and timestamp are Date.now(), the name
\* counts the entries present before the call; call is the ordinal of the
\* call (history).
audioEntry(list, url, time, call) ==
  [id |-> time, name |-> Len(list) + 1, url |-> url, timestamp |-> time,
   call |-> call]

addAudioDropNewest(list, entry) ==
  LET l == <<entry>> \o list
  IN IF Len(l) > AudioCap THEN Tail(l) ELSE l

\* unshift the entry, then pop the last one when there are more than ten.
addAudio(list, entry) ==
  LET l == <<entry>> \o list
  IN IF Len(l) > AudioCap THEN SubSeq(l, 1, Len(l) - 1) ELSE l

AddAudio(url) ==
  /\ adds < MaxAdds
  /\ recentAudio' = addAudio(recentAudio,
                             audioEntry(recentAudio, url, now, adds + 1))
  /\ adds' = adds + 1
  /\ UNCHANGED now
  /\ UNCHANGED notAudioStore

\* Time passes between two calls.
Tick ==
  /\ now < MaxClock
  /\ now' = now + 1
  /\ UNCHANGED <<recentAudio, adds>>
  /\ UNCHANGED notAudioStore

AudioStoreNext ==
  \/ \E url \in AudioUrls : AddAudio(url)
  \/ Tick

SpecAudioStore == Init /\ [][AudioStoreNext]_vars

----------------------------------------------------------------------------
(* The WebSocket client of the front end (WebSocketService).               *)

maxReconnectAttempts == 5

MaxSends == 2

\* What send is called with: a string, or a message object.
SendData == {"string", "object"}

\* onclose: a reconnect timer is set while reconnectAttempts is below the
\* maximum.
oncloseTimersInclusive(attempts, pending) ==
  IF attempts <= maxReconnectAttempts THEN pending + 1 ELSE pending

oncloseTimers(attempts, pending) ==
  IF attempts < maxReconnectAttempts THEN pending + 1 ELSE pending

\* send: the guard on this.ws and its readyState.
canSendNotClosed(socket) == socket \notin {"null", "CLOSED"}

canSend(socket) == socket # "null" /\ socket = "OPEN"

\* The constructor calls connect(); new WebSocket(url) throws on a url it
\* cannot parse, and then this.ws stays null.
WsConstruct(valid) ==
  /\ ~constructed
  /\ constructed' = TRUE
  /\ ws' = IF valid THEN "CONNECTING" ELSE "null"
  /\ UNCHANGED <<reconnectAttempts, timers, sinceOpen, wire, sendResult,
                 closedByApp>>
  /\ UNCHANGED notWsClient

\* onopen.
WsOpen ==
  /\ ws = "CONNECTING"
  /\ ws' = "OPEN"
  /\ reconnectAttempts' = 0
  /\ sinceOpen' = 0
  /\ UNCHANGED <<constructed, timers, wire, sendResult, closedByApp>>
  /\ UNCHANGED notWsClient

\* The connection cannot be established, or an open connection is lost:
\* the socket is closed and onclose runs.
WsLost ==
  /\ ws \in {"CONNECTING", "OPEN"}
  /\ ws' = "CLOSED"
  /\ timers' = oncloseTimers(reconnectAttempts, timers)
  /\ UNCHANGED <<constructed, reconnectAttempts, sinceOpen, wire, sendResult,
                 closedByApp>>
  /\ UNCHANGED notWsClient

\* close(): this.ws.close() when there is a socket; a socket that is
\* connecting or open starts its closing handshake.
WsClose ==
  /\ constructed
  /\ ws' = IF ws \in {"CONNECTING", "OPEN"} THEN "CLOSING" ELSE ws
  /\ closedByApp' = (ws # "null")
  /\ UNCHANGED <<constructed, reconnectAttempts, timers, sinceOpen, wire,
                 sendResult>>
  /\ UNCHANGED notWsClient

\* The closing handshake ends: the socket is closed and onclose runs.
WsClosed ==
  /\ ws = "CLOSING"
  /\ ws' = "CLOSED"
  /\ timers' = oncloseTimers(reconnectAttempts, timers)
  /\ UNCHANGED <<constructed, reconnectAttempts, sinceOpen, wire, sendResult,
                 closedByApp>>
  /\ UNCHANGED notWsClient

\* The timer of onclose fires: reconnectAttempts++ and connect().
WsReconnect ==
  /\ timers > 0
  /\ timers' = timers - 1
  /\ reconnectAttempts' = reconnectAttempts + 1
  /\ sinceOpen' = sinceOpen + 1
  /\ ws' = "CONNECTING"
  /\ closedByApp' = FALSE
  /\ UNCHANGED <<constructed, wire, sendResult>>
  /\ UNCHANGED notWsClient

\* send(data): one frame to the socket when it is open, else an Error.
WsSend(data) ==
  /\ constructed
  /\ wire < MaxSends
  /\ IF canSend(ws)
     THEN /\ wire' = wire + 1
          /\ sendResult' = "sent"
     ELSE /\ wire' = wire
          /\ sendResult' = "threw"
  /\ UNCHANGED <<constructed, ws, reconnectAttempts, timers, sinceOpen,
                 closedByApp>>
  /\ UNCHANGED notWsClient

\* The caller goes on after a send.
WsSendReturn ==
  /\ sendResult # "none"
  /\ sendResult' = "none"
  /\ UNCHANGED <<constructed, ws, reconnectAttempts, timers, sinceOpen, wire,
                 closedByApp>>
  /\ UNCHANGED notWsClient

WsClientNext ==
  \/ \E valid \in BOOLEAN : WsConstruct(valid)
  \/ WsOpen
  \/ WsLost
  \/ WsClose
  \/ WsClosed
  \/ WsReconnect
  \/ \E data \in SendData : WsSend(data)
  \/ WsSendReturn

SpecWsClient == Init /\ [][WsClientNext]_vars

----------------------------------------------------------------------------
(* on, off and emit of the WebSocket client, for one event.                *)

MaxHandlers == 3

\* The handler functions the application registers.
Handlers == {"h1", "h2", "h3"}

\* What a handler does when it is called: it returns, it throws, or it
\* calls off for some handler of the event and returns.
HandlerEffects ==
  {[do |-> "return", arg |-> "none"], [do |-> "throw", arg |-> "none"]}
    \cup {[do |-> "off", arg |-> h] : h \in Handlers}

\* indexOf: the first index of the handler, 0 when it is absent.
indexOf(list, h) ==
  IF \E i \in DOMAIN list : list[i] = h
  THEN CHOOSE i \in DOMAIN list :
         list[i] = h /\ \A k \in 1..(i - 1) : list[k] # h
  ELSE 0

\* off: splice the first occurrence of the handler out of the list.
off(list, h) ==
  LET i == indexOf(list, h)
  IN IF i = 0 THEN list
     ELSE SubSeq(list, 1, i - 1) \o SubSeq(list, i + 1, Len(list))

\* on(event, handler) outside an emit.
On(h) ==
  /\ ~emitting
  /\ Len(eventHandlers) < MaxHandlers
  /\ eventHandlers' = Append(eventHandlers, h)
  /\ UNCHANGED <<emitting, emitIdx, emitLen, emitStart, invoked>>
  /\ UNCHANGED notEmit

\* off(event, handler) outside an emit.
Off(h) ==
  /\ ~emitting
  /\ eventHandlers' = off(eventHandlers, h)
  /\ UNCHANGED <<emitting, emitIdx, emitLen, emitStart, invoked>>
  /\ UNCHANGED notEmit

\* emit(event, data): forEach starts on the list and reads its length.
EmitStart ==
  /\ ~emitting
  /\ emitting' = TRUE
  /\ emitIdx' = 1
  /\ emitLen' = Len(eventHandlers)
  /\ emitStart' = eventHandlers
  /\ invoked' = <<>>
  /\ UNCHANGED eventHandlers
  /\ UNCHANGED notEmit

\* One iteration of forEach: the element at the index, if the list still
\* has one there, is called inside try/catch; the handler may change the
\* list.
EmitCall(effect) ==
  /\ emitting
  /\ emitIdx <= emitLen
  /\ IF emitIdx <= Len(eventHandlers)
     THEN /\ invoked' = Append(invoked, eventHandlers[emitIdx])
          /\ eventHandlers' = IF effect.do = "off"
                              THEN off(eventHandlers, effect.arg)
                              ELSE eventHandlers
     ELSE UNCHANGED <<invoked, eventHandlers>>
  /\ emitIdx' = emitIdx + 1
  /\ UNCHANGED <<emitting, emitLen, emitStart>>
  /\ UNCHANGED notEmit

\* forEach has visited every index below the length it read: emit returns.
EmitEnd ==
  /\ emitting
  /\ emitIdx > emitLen
  /\ emitting' = FALSE
  /\ UNCHANGED <<eventHandlers, emitIdx, emitLen, emitStart, invoked>>
  /\ UNCHANGED notEmit

EmitNext ==
  \/ \E h \in Handlers : On(h)
  \/ \E h \in Handlers : Off(h)
  \/ EmitStart
  \/ \E effect \in HandlerEffects : EmitCall(effect)
  \/ EmitEnd

SpecEmit == Init /\ [][EmitNext]_vars

----------------------------------------------------------------------------
(* The chat store of the front end (useChatStore).                         *)

MaxChatCalls == 3

Contents == {"hi", "ok"}

\* addMessage pushes the message with the time of the call.
addMessage(list, role, content) ==
  Append(list, [role |-> role, content |-> content, timestamp |-> now])

startProcessing == TRUE

stopProcessing == FALSE

\* The reply sendMessage adds for a content.
aiReply(content) == <<"This is a simulated AI response to: ", content>>

\* sendMessage up to its await: the user message is added, the processing
\* flag is set and the one-second timer is started.
SendMessage(content) ==
  /\ chatCalls < MaxChatCalls
  /\ messages' = addMessage(messages, "user", content)
  /\ isProcessing' = startProcessing
  /\ chatPending' = Append(chatPending, content)
  /\ chatCalls' = chatCalls + 1
  /\ UNCHANGED notChat

\* The oldest timer fires (the delays are equal, so the timers fire in the
\* order they were set): the call adds the reply and, in its finally block,
\* clears the processing flag.
SendMessageResume ==
  /\ chatPending # <<>>
  /\ messages' = addMessage(messages, "ai", aiReply(Head(chatPending)))
  /\ isProcessing' = stopProcessing
  /\ chatPending' = Tail(chatPending)
  /\ UNCHANGED chatCalls
  /\ UNCHANGED notChat

ClearMessages ==
  /\ messages # <<>>
  /\ messages' = <<>>
  /\ UNCHANGED <<isProcessing, chatPending, chatCalls>>
  /\ UNCHANGED notChat

ChatNext ==
  \/ \E content \in Contents : SendMessage(content)
  \/ SendMessageResume
  \/ ClearMessages
  \/ Tick

SpecChat == Init /\ [][ChatNext]_vars

----------------------------------------------------------------------------
(* The config store of the front end (useConfigStore).                     *)

Sections == {"llm", "asr", "tts"}

\* The keys the store is created with, per section.
SectionKeys == [s \in Sections |-> DOMAIN defaultConfig[s]]

\* The value an update gives to a key.
NewValues == {"new"}

\* The objects an update of a section is called with: values for some of
\* the section's keys, at least one.
Patches(s) ==
  UNION {[K -> NewValues] : K \in SUBSET SectionKeys[s] \ {{}}}

\* The objects updateConfig is called with: a patch for one section.
NewConfigs ==
  UNION {{[t \in {s} |-> p] : p \in Patches(s)} : s \in Sections}

\* { ...a, ...b }: the keys of both, with b's value where b has the key.
spread(a, b) ==
  [k \in DOMAIN a \cup DOMAIN b |-> IF k \in DOMAIN b THEN b[k] ELSE a[k]]

\* updateConfig(newConfig): this.config = { ...this.config, ...newConfig }.
UpdateConfig(newConfig) ==
  /\ config' = spread(config, newConfig)
  /\ cfgOp' = [op |-> "updateConfig", section |-> "none", arg |-> newConfig]
  /\ UNCHANGED notConfig

\* updateLLMConfig, updateASRConfig, updateTTSConfig:
\* this.config.s = { ...this.config.s, ...patch }.
UpdateSection(s, patch) ==
  /\ config' = [config EXCEPT ![s] = spread(config[s], patch)]
  /\ cfgOp' = [op |-> "updateSection", section |-> s, arg |-> patch]
  /\ UNCHANGED notConfig

UpdateLLMConfig(llmConfig) == UpdateSection("llm", llmConfig)
UpdateASRConfig(asrConfig) == UpdateSection("asr", asrConfig)
UpdateTTSConfig(ttsConfig) == UpdateSection("tts", ttsConfig)

ConfigNext ==
  \/ \E newConfig \in NewConfigs : UpdateConfig(newConfig)
  \/ \E llmConfig \in Patches("llm") : UpdateLLMConfig(llmConfig)
  \/ \E asrConfig \in Patches("asr") : UpdateASRConfig(asrConfig)
  \/ \E ttsConfig \in Patches("tts") : UpdateTTSConfig(ttsConfig)

SpecConfig == Init /\ [][ConfigNext]_vars

----------------------------------------------------------------------------
(* The Live2D renderer component: loadModel, the watch and onUnmounted.    *)

\* app.destroy(...): the application is no longer alive.
destroy(apps, a) == apps \ {a}

\* loadModel is called: error is reset and the call awaits nextTick.  The
\* calls are numbered in the order they are made.
LoadModel(k) ==
  /\ mounted
  /\ lpc[k] = "idle"
  /\ k > 1 => lpc[k - 1] # "idle"
  /\ lpc' = [lpc EXCEPT ![k] = "tick"]
  /\ UNCHANGED <<mounted, app, live2dModel, alive, created>>
  /\ UNCHANGED notLive2D

\* After nextTick: without a canvas the call throws; else the application
\* in app, if any, is destroyed (app keeps its value) and the call awaits
\* loadLive2DLibraries.  Destroying an application a second time either
\* does nothing or throws, as the library decides.
LoadAfterTick(k, throws) ==
  /\ lpc[k] = "tick"
  /\ throws => (app # 0 /\ app \notin alive)
  /\ IF ~mounted \/ throws
     THEN /\ lpc' = [lpc EXCEPT ![k] = "failed"]
          /\ UNCHANGED alive
     ELSE /\ lpc' = [lpc EXCEPT ![k] = "libs"]
          /\ alive' = IF app # 0 THEN destroy(alive, app) ELSE alive
  /\ UNCHANGED <<mounted, app, live2dModel, created>>
  /\ UNCHANGED notLive2D

\* After loadLive2DLibraries: a script that fails to load rejects; else a
\* new PIXI.Application is created and assigned to app, and the call awaits
\* Model.from.
LoadAfterLibs(k, ok) ==
  /\ lpc[k] = "libs"
  /\ IF ok
     THEN /\ created' = created + 1
          /\ app' = created + 1
          /\ alive' = alive \cup {created + 1}
          /\ lpc' = [lpc EXCEPT ![k] = "model"]
     ELSE /\ lpc' = [lpc EXCEPT ![k] = "failed"]
          /\ UNCHANGED <<created, app, alive>>
  /\ UNCHANGED <<mounted, live2dModel>>
  /\ UNCHANGED notLive2D

\* After Model.from: a failed load rejects; else the model is added to the
\* stage of the application now in app and kept in live2dModel.
LoadAfterModel(k, ok) ==
  /\ lpc[k] = "model"
  /\ IF ok
     THEN /\ live2dModel' = k
          /\ lpc' = [lpc EXCEPT ![k] = "done"]
     ELSE /\ lpc' = [lpc EXCEPT ![k] = "failed"]
          /\ UNCHANGED live2dModel
  /\ UNCHANGED <<mounted, app, alive, created>>
  /\ UNCHANGED notLive2D

\* onUnmounted: the application in app, if any, is destroyed.
Unmount ==
  /\ mounted
  /\ lpc[1] # "idle"
  /\ mounted' = FALSE
  /\ alive' = IF app # 0 THEN destroy(alive, app) ELSE alive
  /\ UNCHANGED <<app, live2dModel, created, lpc>>
  /\ UNCHANGED notLive2D

Live2DNext ==
  \/ \E k \in LoadCalls : LoadModel(k)
  \/ \E k \in LoadCalls : \E throws \in BOOLEAN : LoadAfterTick(k, throws)
  \/ \E k \in LoadCalls : \E ok \in BOOLEAN : LoadAfterLibs(k, ok)
  \/ \E k \in LoadCalls : \E ok \in BOOLEAN : LoadAfterModel(k, ok)
  \/ Unmount

SpecLive2D == Init /\ [][Live2DNext]_vars

----------------------------------------------------------------------------
(* Vocabulary of the properties *)

\* The inputs that start a run: text-input (processTextInput) and
\* mic-audio-data (processAudioData).
RunInputs == {"text-input", "mic-audio-data"}

\* The events that end a run.
Terminal == {"tts-done", "interrupted", "error"}

\* The frames written to a connection by its own handler (not by a
\* broadcast).
RunFrames(c) == SelectSeq(out[c], LAMBDA f : f # BroadcastType)

\* s is llm-partial*, llm-final, tts-chunk*, tts-done.
MatchesRun(s) ==
  \E i \in 1..Len(s) :
    /\ i < Len(s)
    /\ s[i] = "llm-final"
    /\ s[Len(s)] = "tts-done"
    /\ \A k \in 1..(i - 1) : s[k] = "llm-partial"
    /\ \A k \in (i + 1)..(Len(s) - 1) : s[k] = "tts-chunk"

\* The step is sendToClient writing the head of inflight[c] to c.
Delivers(c) ==
  /\ inflight[c] # <<>>
  /\ inflight'[c] = Tail(inflight[c])
  /\ out'[c] = Append(out[c], Head(inflight[c]).type)

\* The step is the handler of c reading and dispatching a frame of type t.
Handles(c, t) == handled'[c] = Append(handled[c], t)

\* The connection is back in the read loop with every write so far
\* succeeded.
Settled(c) == pc[c] = "reading" /\ c \notin closed /\ inflight[c] = <<>>

----------------------------------------------------------------------------
\* C1: whatever interrupt-signal frames a connection has sent, every frame
\* the handler writes to it belongs to a run whose sequence number (the
\* number of interrupts handled when the run started) is not less than the
\* connection's current sequence: no output of a run is written after a
\* later interrupt was handled.
NoStaleOutput ==
  [][\A c \in Conns :
       Delivers(c) => Head(inflight[c]).seq >= CurrentSequence(c)]_vars

\* A connection ran a text-input and then sent an interrupt: the output of
\* the run had been written before the interrupt was handled.
NoStaleOutputWitness ==
  \E c \in Conns :
    /\ handled[c] = <<"text-input", "interrupt-signal">>
    /\ out[c] = <<"llm-response">>
    /\ CurrentSequence(c) = 1
    /\ Settled(c)

\* C2: at most one run is active per connection: a reply is in flight only
\* while the handler is inside sendToClient, and never more than one, so a
\* new input is read only after the previous run has written its output.
OneActiveRun ==
  \A c \in Conns :
    /\ Len(inflight[c]) <= 1
    /\ inflight[c] # <<>> => pc[c] = "writing"

\* A second run is active on a connection whose first run has completed.
OneActiveRunWitness ==
  \E c \in Conns :
    /\ handled[c] = <<"text-input", "text-input">>
    /\ out[c] = <<"llm-response">>
    /\ pc[c] = "writing"
    /\ Head(inflight[c]).type = "llm-response"

\* C3: after a text-input whose replies were all written, the client has
\* received llm-partial*, llm-final, tts-chunk*, tts-done, in this order.
TextInputEventOrder ==
  \A c \in Conns :
    (handled[c] = <<"text-input">> /\ Settled(c)) => MatchesRun(RunFrames(c))

\* C4: after mic-audio-data followed by interrupt-signal, the client has
\* been sent an interrupted event and the session is idle again, and no
\* tts-chunk was sent.
InterruptEmitsInterrupted ==
  \A c \in Conns :
    (/\ Len(handled[c]) >= 2
     /\ handled[c][Len(handled[c]) - 1] = "mic-audio-data"
     /\ Last(handled[c]) = "interrupt-signal"
     /\ Settled(c))
    => /\ \E i \in DOMAIN out[c] : out[c][i] = "interrupted"
       /\ \A i \in DOMAIN out[c] : out[c][i] # "tts-chunk"

\* C5: handling a well-formed frame of a type handleMessage has no case for
\* writes nothing and queues nothing for any client, leaves the registry and
\* every connection as they were, and returns the handler to the read loop.
UnknownTypeTolerated ==
  [][\A c \in Conns : \A t \in FrameTypes \ Recognized :
       Handles(c, t) =>
         /\ pc'[c] = "reading"
         /\ out' = out
         /\ inflight' = inflight
         /\ clients' = clients
         /\ closed' = closed]_vars

\* A connection sent an unknown type and then fetch-configs, got the
\* configs reply, and is still open and registered.
UnknownTypeToleratedWitness ==
  \E c \in Conns :
    /\ handled[c] = <<"foo", "fetch-configs">>
    /\ out[c] = <<"configs">>
    /\ c \in clients
    /\ c \notin closed
    /\ pc[c] = "reading"

\* C6: reading a frame that is not a JSON envelope leaves the handler in
\* the read loop and the connection open and registered.
MalformedTolerated ==
  [][\A c \in Conns :
       Handles(c, Malformed) =>
         /\ pc'[c] = "reading"
         /\ clients' = clients
         /\ closed' = closed]_vars

\* C7: a broadcast in which exactly one member's write fails appends the
\* message to the output of every other member and removes exactly the
\* failing member from the registry.
BroadcastIsolatesFailure ==
  [][(bcasts' = bcasts + 1 /\ Cardinality(hubOp'.fail) = 1) =>
       /\ \A c \in clients \ hubOp'.fail :
            out'[c] = Append(out[c], BroadcastType)
       /\ clients' = clients \ hubOp'.fail]_vars

\* A broadcast to three members had one failing member: the two others
\* received the message and are still registered.
BroadcastIsolatesFailureWitness ==
  /\ hubOp.op = "broadcast"
  /\ Cardinality(hubOp.fail) = 1
  /\ Cardinality(clients) = 2
  /\ clients \cap hubOp.fail = {}
  /\ \A c \in clients : out[c] # <<>> /\ Last(out[c]) = BroadcastType

MembershipIdempotent ==
  [][/\ (hubOp'.op = "register" /\ hubOp'.conn \in clients) =>
          (clients' = clients /\ closed' = closed /\ out' = out)
     /\ (hubOp'.op = "unregister" /\ hubOp'.conn \notin clients) =>
          (clients' = clients /\ closed' = closed /\ out' = out)]_vars

\* The hub was handed, on register, a connection that was already in the
\* map, next to other members.
MembershipIdempotentWitness ==
  /\ hubOp.op = "register"
  /\ hubOp.was
  /\ hubOp.conn \in clients
  /\ Cardinality(clients) >= 2

\* C10: once a connection is back in the read loop after its run inputs,
\* with every write succeeded, it has been sent one terminal event
\* (tts-done, interrupted or error) per run.
RunReachesTerminal ==
  \A c \in Conns :
    Settled(c) =>
      Cardinality({i \in DOMAIN out[c] : out[c][i] \in Terminal})
        >= Cardinality({i \in DOMAIN handled[c] : handled[c][i] \in RunInputs})

----------------------------------------------------------------------------
(* The HTTP audio pipeline *)

\* The stages an error text names.
Mentions(text) ==
  {st \in {"ASR", "LLM", "TTS"} :
     \/ st = "ASR" /\ text = "ASR failed"
     \/ st = "LLM" /\ text = "LLM failed"
     \/ st = "TTS" /\ text = "TTS failed"}

\* The calls that returned an error.
FailedCalls == {i \in DOMAIN acalls : ~acalls[i].res.ok}

AudioPipelineOrder ==
  /\ Len(acalls) <= 3
  /\ \A i \in DOMAIN acalls : acalls[i].stage = Stages[i]
  /\ Len(acalls) >= 1 => acalls[1].input = <<areq.audio, areq.format>>
  /\ Len(acalls) >= 2 => acalls[2].input = acalls[1].res.val
  /\ Len(acalls) >= 3 => acalls[3].input = acalls[2].res.val
  /\ (apc = "done" /\ aresp.status = 200) =>
       /\ Len(acalls) = 3
       /\ aresp.text = acalls[2].res.val
       /\ aresp.audioUrl = acalls[3].res.val

\* A request went through the three stages and was answered with 200.
AudioPipelineOrderWitness ==
  /\ apc = "done"
  /\ aresp.status = 200
  /\ Len(acalls) = 3
  /\ acalls[3].input = "ai-reply-2"
  /\ aresp.text = "ai-reply-2"
  /\ aresp.audioUrl = "/audio/other.mp3"

----------------------------------------------------------------------------
(* The router *)

\* The inbound type each function called by handleMessage is the handler
\* of.
OwnType(branch) ==
  CASE branch = "processTextInput" -> "text-input"
    [] branch = "processAudioData" -> "mic-audio-data"
    [] branch = "sendConfigs" -> "fetch-configs"
    [] branch = "sendInitConfig" -> "request-init-config"
    [] OTHER -> "none"

\* The fifteen inbound types the external interface lists.
DocumentedTypes == InboundTypes \ {"foo"}

\* C12: for every routed frame exactly one branch of the switch is
\* executed; a branch that is a handler is the handler of the frame's type;
\* and two frames of the same type execute the same branch, whatever their
\* payload and connection.
ExactlyOneHandler ==
  \A i \in DOMAIN rcalls :
    /\ Len(rcalls[i].branches) = 1
    /\ rcalls[i].branches[1] # "default" =>
         OwnType(rcalls[i].branches[1]) = rcalls[i].frame.type
    /\ \A j \in DOMAIN rcalls :
         rcalls[j].frame.type = rcalls[i].frame.type =>
           rcalls[j].branches = rcalls[i].branches

\* Two text-input frames with different payloads on different connections
\* were both dispatched to processTextInput.
ExactlyOneHandlerWitness ==
  /\ Len(rcalls) = 2
  /\ rcalls[1].frame.type = "text-input"
  /\ rcalls[2].frame.type = "text-input"
  /\ rcalls[1].frame.data # rcalls[2].frame.data
  /\ rcalls[1].frame.conn # rcalls[2].frame.conn
  /\ rcalls[2].branches = <<"processTextInput">>

\* C13: every frame whose type is one of the fifteen documented inbound
\* types is dispatched to a handler of its own, not to the default clause.
DocumentedTypesRecognized ==
  \A i \in DOMAIN rcalls :
    rcalls[i].frame.type \in DocumentedTypes =>
      /\ rcalls[i].branches # <<"default">>
      /\ \A k \in DOMAIN rcalls[i].branches :
           OwnType(rcalls[i].branches[k]) = rcalls[i].frame.type

----------------------------------------------------------------------------
(* Outbound frames of the WebSocket handler *)

\* The outbound types of the external interface (the history responses are
\* history-list and history-content).
OutboundTypes ==
  {"asr-partial", "llm-partial", "llm-final", "tts-chunk", "tts-done",
   "interrupted", "error", "set-model-and-conf", "configs",
   "history-list", "history-content"}

\* The reply the external interface pairs with a request type.
ReplyOf(type) ==
  CASE type = "text-input" -> "llm-response"
    [] type = "fetch-configs" -> "configs"
    [] type = "request-init-config" -> "set-model-and-conf"
    [] OTHER -> NoReply

\* The replies to a sequence of inbound frames, in the order of the frames.
RECURSIVE Replies(_)
Replies(h) ==
  IF h = <<>> THEN <<>>
  ELSE (IF ReplyOf(Head(h)) = NoReply THEN <<>> ELSE <<ReplyOf(Head(h))>>)
         \o Replies(Tail(h))

IsPrefix(s, t) == Len(s) <= Len(t) /\ \A i \in DOMAIN s : s[i] = t[i]

\* C14: every frame a handler has written to its client has a type of the
\* recognized outbound set.
OutboundTypesRecognized ==
  \A c \in Conns :
    \A i \in DOMAIN RunFrames(c) : RunFrames(c)[i] \in OutboundTypes

\* C15: the replies written to a connection are, in order, the replies to
\* the requests read from it: always a prefix of them, and all of them once
\* the handler is back in the read loop of an open connection.
RepliesInRequestOrder ==
  \A c \in Conns :
    /\ IsPrefix(RunFrames(c), Replies(handled[c]))
    /\ (pc[c] = "reading" /\ c \notin closed) =>
         RunFrames(c) = Replies(handled[c])

\* A connection sent text-input and then fetch-configs and received
\* llm-response and then configs.
RepliesInRequestOrderWitness ==
  \E c \in Conns :
    /\ handled[c] = <<"text-input", "fetch-configs">>
    /\ RunFrames(c) = <<"llm-response", "configs">>

\* C19: handling a mic-audio-data frame (no run is ever active when a frame
\* is read) writes and queues nothing, leaves the registry and every
\* connection as they were, and returns the handler to the read loop.
LateAudioTolerated ==
  [][\A c \in Conns :
       Handles(c, "mic-audio-data") =>
         /\ inflight[c] = <<>>
         /\ pc'[c] = "reading"
         /\ out' = out
         /\ inflight' = inflight
         /\ clients' = clients
         /\ closed' = closed]_vars

\* A connection sent mic-audio-data and then fetch-configs, got the configs
\* reply and nothing else, and is still open and registered.
LateAudioToleratedWitness ==
  \E c \in Conns :
    /\ handled[c] = <<"mic-audio-data", "fetch-configs">>
    /\ out[c] = <<"configs">>
    /\ c \in clients
    /\ c \notin closed
    /\ pc[c] = "reading"

----------------------------------------------------------------------------
(* The registry and its lock *)

\* C16: the registry changes only in a step taken while the write lock is
\* held, and so never while a task holds the read lock.
MutationUnderWriteLock ==
  [][clients' # clients => (mutex.writer /\ mutex.readers = {})]_vars

\* A transport failure has happened on the connection: a read failed, or a
\* write failed and the server closed the connection.
Failed(c) ==
  \/ pc[c] = "unregistering"
  \/ c \in closed /\ pc[c] \in {"reading", "rlock", "writing"}

WriteSuspended(c) ==
  \/ pc[c] = "writing"
  \/ hubpc = "bcast" /\ hubTodo # <<>> /\ Head(hubTodo) = c

\* The hub cannot take its next step before the write to c returns: its
\* Lock waits for c's read lock alone, or it is itself in the write to c.
HubWaitsOnWrite(c) ==
  \/ hubpc \in {"regLock", "unregLock"} /\ mutex.readers = {c}
  \/ hubpc = "bcast" /\ hubTodo # <<>> /\ Head(hubTodo) = c

\* Connection d cannot take its next step before the write to c returns:
\* its hand-over to the hub, its pending registration or unregistration,
\* or the RLock of its own reply waits behind the hub.
BlockedBehind(d, c) ==
  /\ HubWaitsOnWrite(c)
  /\ \/ pc[d] \in {"registering", "unregistering"}
     \/ hubpc \in {"regLock", "unregLock"} /\ hubArg = d
     \/ pc[d] = "rlock" /\ ~CanRLock

\* C18: while a write to one connection is suspended, no other connection
\* waits for it: the others can still register, unregister and get the
\* replies to their own frames.
WriteDoesNotBlockOthers ==
  \A c \in Conns : \A d \in Conns \ {c} :
    WriteSuspended(c) => ~BlockedBehind(d, c)

----------------------------------------------------------------------------
(* Writers of one connection *)

\* C24: the handler of a connection is never inside the WriteJSON of its
\* sendToClient while the hub's broadcast loop is inside WriteJSON on the
\* same connection.
SingleWriterPerConnection ==
  \A c \in Conns :
    ~(/\ pc[c] = "writing"
      /\ c \in mutex.readers
      /\ hubpc = "bcast"
      /\ "hub" \in mutex.readers
      /\ hubTodo # <<>>
      /\ Head(hubTodo) = c)

\* The request types that have a reply.
Requests == {"text-input", "fetch-configs", "request-init-config"}

\* C25: reading a request queues exactly one reply, for the connection that
\* sent it, and queues or writes nothing for any other connection; a step
\* that writes a frame outside a broadcast writes the oldest queued reply
\* of one connection to that connection alone, and takes it off the queue.
ReplyOnlyToRequester ==
  [][\A c \in Conns :
       /\ \A t \in Requests :
            Handles(c, t) =>
              /\ Len(inflight'[c]) = Len(inflight[c]) + 1
              /\ Last(inflight'[c]).type = ReplyOf(t)
              /\ \A d \in Conns \ {c} : inflight'[d] = inflight[d]
              /\ out' = out
       /\ (bcasts' = bcasts /\ out'[c] # out[c]) =>
            /\ Delivers(c)
            /\ \A d \in Conns \ {c} :
                 out'[d] = out[d] /\ inflight'[d] = inflight[d]]_vars

\* One connection asked text-input and got its llm-response while another
\* registered connection, in its read loop, received nothing.
ReplyOnlyToRequesterWitness ==
  \E c \in Conns : \E d \in Conns \ {c} :
    /\ handled[c] = <<"text-input">>
    /\ out[c] = <<"llm-response">>
    /\ d \in clients
    /\ pc[d] = "reading"
    /\ out[d] = <<>>

----------------------------------------------------------------------------
(* The stores of the front end *)

Min(a, b) == IF a < b THEN a ELSE b

\* C21: recentAudio holds the entries of the last ten addAudio calls (of
\* all the calls while there were at most ten), newest first: never more
\* than ten entries, and the entry that leaves is the oldest.
RecentAudioKeepsNewestTen ==
  /\ Len(recentAudio) <= AudioCap
  /\ Len(recentAudio) = Min(adds, AudioCap)
  /\ \A i \in DOMAIN recentAudio : recentAudio[i].call = adds - i + 1

\* An eleventh entry was added to a full store.
RecentAudioKeepsNewestTenWitness ==
  /\ adds = AudioCap + 1
  /\ Len(recentAudio) = AudioCap
  /\ recentAudio[1].call = AudioCap + 1
  /\ recentAudio[AudioCap].call = 2

----------------------------------------------------------------------------
(* The WebSocket client *)

\* C22: reconnectAttempts never exceeds maxReconnectAttempts, at most that
\* many reconnects are made since the last open, at most one reconnect
\* timer is pending, and after the fifth reconnect has ended in a closed
\* socket no timer is pending: the client has stopped.
ReconnectsBounded ==
  /\ reconnectAttempts <= maxReconnectAttempts
  /\ sinceOpen <= maxReconnectAttempts
  /\ timers <= 1
  /\ (sinceOpen = maxReconnectAttempts /\ ws \in {"CLOSED", "null"}) =>
       timers = 0

\* The fifth reconnect in a row has failed and nothing is scheduled.
ReconnectsBoundedWitness ==
  /\ sinceOpen = maxReconnectAttempts
  /\ reconnectAttempts = maxReconnectAttempts
  /\ ws = "CLOSED"
  /\ ~closedByApp
  /\ timers = 0

\* C23: when the closing handshake started by close() ends, no reconnect
\* timer is set.
CloseSchedulesNoReconnect ==
  [][(ws = "CLOSING" /\ ws' = "CLOSED") => timers' = timers]_vars

\* The step is a call of send.
IsSend ==
  /\ sendResult' # "none"
  /\ sendResult' # sendResult \/ wire' # wire

\* C27: a send while this.ws is not an open socket throws and hands nothing
\* to the socket; a send while it is open hands exactly one frame to the
\* socket and does not throw; nothing else transmits.
SendOnlyWhenOpen ==
  [][/\ IsSend =>
          IF ws = "OPEN"
          THEN wire' = wire + 1 /\ sendResult' = "sent"
          ELSE wire' = wire /\ sendResult' = "threw"
     /\ wire' # wire => IsSend]_vars

\* One frame was sent while the socket was open, and a later send, made
\* while the client waits to reconnect, threw.
SendOnlyWhenOpenWitness ==
  /\ wire = 1
  /\ sendResult = "threw"
  /\ ws = "CLOSED"
  /\ timers = 1


\* C26: when an emit has finished its forEach, the handlers it has called
\* are exactly the handlers that were registered when it started, each
\* once, in the order of registration.
EmitCallsEveryHandlerOnce ==
  (emitting /\ emitIdx > emitLen) => invoked = emitStart


\* C28: isProcessing is true exactly while some sendMessage call has not
\* finished.
ProcessingWhileInFlight == isProcessing <=> chatPending # <<>>


\* The section after the step has the patch's value at each key of the
\* patch and its old value at every other key it had.
PatchedBy(s, patch) ==
  /\ \A k \in DOMAIN patch :
       k \in DOMAIN config'[s] /\ config'[s][k] = patch[k]
  /\ \A k \in DOMAIN config[s] \ DOMAIN patch :
       k \in DOMAIN config'[s] /\ config'[s][k] = config[s][k]

\* C29: an update of one section changes the keys it is given in that
\* section and nothing else; updateConfig changes, in each section its
\* argument mentions, the keys given for that section and nothing else.
UpdatesPreserveOtherKeys ==
  [][/\ cfgOp'.op = "updateSection" =>
          /\ PatchedBy(cfgOp'.section, cfgOp'.arg)
          /\ \A s \in Sections \ {cfgOp'.section} : config'[s] = config[s]
     /\ cfgOp'.op = "updateConfig" =>
          /\ \A s \in DOMAIN cfgOp'.arg : PatchedBy(s, cfgOp'.arg[s])
          /\ \A s \in Sections \ DOMAIN cfgOp'.arg :
               config'[s] = config[s]]_vars

----------------------------------------------------------------------------
(* The Live2D renderer *)

====
